---- MODULE Spec2Model ----
(***************************************************************************)
(* Model of the voicemail drop detector: BeepDetector and SilenceDetector  *)
(* (src/detectors.py), the transcript buffers (src/stt.py), the greeting   *)
(* analyzer (src/llm.py), the per-file decision loop                      *)
(* VoicemailDropper.process_audio_stream and the batch loop                *)
(* process_directory (src/voicemail_dropper.py), and the splice            *)
(* insert_voice_mail_at_drop (src/utils.py).                               *)
(*                                                                         *)
(* Wall-clock time (time.time()) is an integer count of ticks of 50 ms,    *)
(* so 0.05 s = 1, 0.3 s = 6, 0.6 s = 12, 1.0 s = 20.  Audio time           *)
(* (processed_duration, total_duration, trigger_time) is kept as a         *)
(* fraction <<num, den>> of seconds: <<k, 10>> for the double k * 0.1 and  *)
(* <<len, sr>> for the double len / sr.  Where the code computes with      *)
(* these doubles (the simulated transcriber, the splice) the model does    *)
(* too, a double being m * 2^e.  Python's None is the value None for a     *)
(* wall-clock field, <<>> for a fraction and "None" for a reason.          *)
(*                                                                         *)
(* A chunk of audio is a record of what the detectors compute from its     *)
(* samples: n = len(chunk), total_energy = sum |FFT|, ratio = the share of *)
(* the 900-1100 Hz band in percent, peak = max |sample| in percent, and    *)
(* speech = the answer of the WebRTC classifier for the first 30 ms.       *)
(***************************************************************************)
EXTENDS Integers, Sequences, FiniteSets, TLC

VARIABLES
    now,                 \* the wall clock, in ticks
    beep,                \* the BeepDetector object
    beep_ret,            \* what the last BeepDetector.process_chunk returned
    beep_obs,            \* observation of the BeepDetector's call history
    sil,                 \* the SilenceDetector object
    sil_ret,             \* what the last SilenceDetector.process_chunk returned
    sil_hist,            \* observation of the SilenceDetector's call history
    pc,                  \* where process_audio_stream is: idle, loop, returned, raised
    audio,               \* the file read: decodes, sample_rate, num_samples
    start_time,          \* VoicemailDropper.start_time
    triggered,           \* VoicemailDropper.triggered
    trigger_time,        \* VoicemailDropper.trigger_time
    trigger_reason,      \* VoicemailDropper.trigger_reason
    processed_duration,  \* VoicemailDropper.processed_duration
    total_duration,      \* VoicemailDropper.total_duration
    i,                   \* the loop index of process_audio_stream
    current_context,     \* the context fetched at the last chunk
    stt,                 \* the SpeechToTextProcessor with its transcriber
    llm,                 \* stt_processor.llm_analyzer
    pace,                \* computing time of one loop iteration, in ticks
    obs,                 \* observation: calls made, samples fed, drops triggered
    splice,              \* a call of insert_voice_mail_at_drop: inputs and output
    queue,               \* process_directory: the files still to process
    results,             \* process_directory: the result records, in order
    call                 \* observation of the last call of is_greeting_complete

-----------------------------------------------------------------------------
(* Bounds of the model *)

Epoch == 100
DetSpan == 8
MaxRun == 4
MaxList == 3
MaxChunks == 11
MaxCandidates == 1
OracleSpan == 45
SttSpan == 80
MaxTranscript == 260

(* Program constants, times in ticks of 50 ms, ratios in percent *)

None == -1
MinSamples == 1024
RatioThreshold == 8
PeakThreshold == 10
MaxEnergies == 5
MinBeepDuration == 6
MinBeepCount == 2
SpeechOnCount == 2
SilenceOnCount == 3
SilenceThreshold == 12
SpeechMargin == 20
SleepTicks == 1

-----------------------------------------------------------------------------
(* Helpers *)

RECURSIVE SumSeq(_)
SumSeq(s) == IF s = <<>> THEN 0 ELSE Head(s) + SumSeq(Tail(s))

Min2(a, b) == IF a < b THEN a ELSE b

Max2(a, b) == IF a > b THEN a ELSE b

\* Python truthiness of an optional float: None and 0.0 are false.
Truthy(x) == x # None /\ x # 0

-----------------------------------------------------------------------------
(* BeepDetector *)

BeepNew ==
    [beep_detected |-> FALSE, last_beep_time |-> None, confidence |-> 0,
     recent_beep_detections |-> <<>>, recent_energies |-> <<>>]

\* line 40: the chunk is a beep candidate by energy share and amplitude.
Qualifies(chunk) ==
    /\ chunk.total_energy > 0
    /\ chunk.ratio > RatioThreshold
    /\ chunk.peak > PeakThreshold

\* lines 41-43: the rolling window of the last five qualifying ratios.
PushEnergy(energies, r) ==
    LET e == Append(energies, r)
    IN IF Len(e) > MaxEnergies THEN Tail(e) ELSE e

\* line 45: avg_energy > 0.08, with avg_energy = sum / len.
AvgAbove(energies) == SumSeq(energies) > RatioThreshold * Len(energies)

\* lines 47-48: enough candidates, the oldest younger than min_beep_duration.
BeepConfirmsSingle(dets, t) ==
    Len(dets) >= 1 /\ t - dets[1] < MinBeepDuration

BeepConfirmsNewest(dets, t) ==
    Len(dets) >= MinBeepCount /\ t - dets[Len(dets) - 1] < MinBeepDuration

BeepConfirms(dets, t) ==
    Len(dets) >= MinBeepCount /\ t - dets[1] < MinBeepDuration

\* lines 29-31: the chunk is too short for the transform.
TooShortNever(n) == FALSE

TooShort(n) == n < MinSamples

\* BeepDetector.process_chunk, with the three readings t1 <= t2 <= t3 of
\* time.time() (lines 46, 48, 50): the new object and the value returned.
BeepProcessChunk(bd, chunk, t1, t2, t3) ==
    IF chunk.n = 0 \/ TooShort(chunk.n)
    THEN [obj |-> bd, ret |-> FALSE]
    ELSE IF ~Qualifies(chunk)
    THEN [obj |-> bd, ret |-> FALSE]
    ELSE LET energies == PushEnergy(bd.recent_energies, chunk.ratio)
             withE == [bd EXCEPT !.recent_energies = energies]
         IN IF ~AvgAbove(energies)
            THEN [obj |-> withE, ret |-> FALSE]
            ELSE LET dets == Append(bd.recent_beep_detections, t1)
                 IN IF BeepConfirms(dets, t2)
                    THEN [obj |-> [beep_detected |-> TRUE,
                                   last_beep_time |-> t3,
                                   confidence |->
                                       Min2(100, SumSeq(energies) \div Len(energies)),
                                   recent_beep_detections |-> <<>>,
                                   recent_energies |-> energies],
                          ret |-> TRUE]
                    ELSE [obj |-> [withE EXCEPT !.recent_beep_detections = dets],
                          ret |-> FALSE]

\* BeepDetector.reset
BeepKeep(bd) == bd

BeepReset(bd) == BeepNew

-----------------------------------------------------------------------------
(* SilenceDetector *)

SilenceNew(t) ==
    [silence_start |-> None, last_speech_time |-> t, silence_duration |-> 0,
     speech_active |-> FALSE, consecutive_silence |-> 0,
     consecutive_speech |-> 0]

\* The sample rates webrtcvad accepts; at any other rate is_speech raises.
VadRates == {8000, 16000, 32000, 48000}

\* line 93: frame_size = int(sample_rate * 0.03)
FrameSize(sr) == (sr * 3) \div 100

\* lines 90-98: the classification of the chunk's first 30 ms; a chunk
\* shorter than the frame, and a failure of the classifier, are non-speech.
IsSpeech(chunk, sr) ==
    /\ chunk.n >= FrameSize(sr)
    /\ sr \in VadRates
    /\ chunk.speech

\* lines 111-116: a run of non-speech long enough to act on.
SilenceConfirmedEarly(sd) == sd.consecutive_silence >= 1

SilenceConfirmed(sd) == sd.consecutive_silence >= SilenceOnCount

\* lines 100-107
OnSpeechKeepTimer(sd, t) ==
    LET c == [sd EXCEPT !.consecutive_speech = @ + 1,
                        !.consecutive_silence = 0]
    IN IF c.consecutive_speech >= SpeechOnCount
       THEN [c EXCEPT !.speech_active = TRUE, !.last_speech_time = t]
       ELSE c

OnSpeech(sd, t) ==
    LET c == [sd EXCEPT !.consecutive_speech = @ + 1,
                        !.consecutive_silence = 0]
    IN IF c.consecutive_speech >= SpeechOnCount
       THEN [c EXCEPT !.speech_active = TRUE, !.last_speech_time = t,
                      !.silence_start = None, !.silence_duration = 0]
       ELSE c

\* lines 108-116
OnSilence(sd, t) ==
    LET c == [sd EXCEPT !.consecutive_silence = @ + 1,
                        !.consecutive_speech = 0]
    IN IF SilenceConfirmed(c)
       THEN IF c.speech_active
            THEN [c EXCEPT !.silence_start = t, !.speech_active = FALSE]
            ELSE IF Truthy(c.silence_start)
                 THEN [c EXCEPT !.silence_duration = t - c.silence_start]
                 ELSE c
       ELSE c

\* SilenceDetector.process_chunk, with t the reading of time.time() (line 99).
SilenceProcessChunk(sd, chunk, sr, t) ==
    IF chunk.n = 0
    THEN [obj |-> sd, ret |-> sd.silence_duration]
    ELSE LET s == IF IsSpeech(chunk, sr) THEN OnSpeech(sd, t) ELSE OnSilence(sd, t)
         IN [obj |-> s, ret |-> s.silence_duration]

\* SilenceDetector.reset
SilenceReset(sd, t) == SilenceNew(t)

-----------------------------------------------------------------------------
(* Texts: a text is the sequence of its characters.                        *)

Uppers ==
    <<"A","B","C","D","E","F","G","H","I","J","K","L","M","N","O","P","Q",
      "R","S","T","U","V","W","X","Y","Z">>
Lowers ==
    <<"a","b","c","d","e","f","g","h","i","j","k","l","m","n","o","p","q",
      "r","s","t","u","v","w","x","y","z">>

\* str.lower()
LowerOf ==
    [c \in {Uppers[k] : k \in 1..26} |->
        Lowers[CHOOSE k \in 1..26 : Uppers[k] = c]]
LowerChar(c) == IF c \in DOMAIN LowerOf THEN LowerOf[c] ELSE c
LowerText(s) == [k \in 1..Len(s) |-> LowerChar(s[k])]

\* str.strip(): the only white space of these texts is the blank
RECURSIVE LStrip(_)
LStrip(s) == IF s # <<>> /\ Head(s) = " " THEN LStrip(Tail(s)) ELSE s
RECURSIVE RStrip(_)
RStrip(s) ==
    IF s # <<>> /\ s[Len(s)] = " " THEN RStrip(SubSeq(s, 1, Len(s) - 1)) ELSE s
Strip(s) == RStrip(LStrip(s))

\* s[:n] and s[-n:]
FirstChars(s, n) == IF Len(s) <= n THEN s ELSE SubSeq(s, 1, n)
LastChars(s, n) == IF Len(s) <= n THEN s ELSE SubSeq(s, Len(s) - n + 1, Len(s))

\* pat in text
Contains(text, pat) ==
    \E k \in 1..(Len(text) - Len(pat) + 1) :
        SubSeq(text, k, k + Len(pat) - 1) = pat

VoicemailPhrases ==
    <<
      <<"H","i"," ","y","o","u","'","v","e"," ","r","e","a","c","h","e","d",
        " ","M","i","k","e"," ","R","o","d","r","i","g","u","e","z">>,
      <<"H","e","l","l","o"," ","t","h","i","s"," ","i","s"," ","M","i","k",
        "e">>,
      <<"Y","o","u","'","v","e"," ","r","e","a","c","h","e","d"," ","M","i",
        "k","e"," ","R","o","d","r","i","g","u","e","z">>,
      <<"H","i"," ","y","o","u","'","v","e"," ","r","e","a","c","h","e","d",
        " ","M","i","k","e"," ","R","o","d","r","i","g","u","e","z"," ","I",
        " ","c","a","n","'","t"," ","t","a","k","e"," ","y","o","u","r"," ",
        "c","a","l","l"," ","r","i","g","h","t"," ","n","o","w">>,
      <<"H","e","l","l","o"," ","t","h","i","s"," ","i","s"," ","M","i","k",
        "e"," ","I","'","m"," ","n","o","t"," ","a","v","a","i","l","a","b",
        "l","e"," ","a","t"," ","t","h","e"," ","m","o","m","e","n","t">>,
      <<"Y","o","u","'","v","e"," ","r","e","a","c","h","e","d"," ","t","h",
        "e"," ","v","o","i","c","e","m","a","i","l"," ","o","f"," ","M","i",
        "k","e"," ","R","o","d","r","i","g","u","e","z">>,
      <<"H","i"," ","y","o","u","'","v","e"," ","r","e","a","c","h","e","d",
        " ","M","i","k","e"," ","R","o","d","r","i","g","u","e","z"," ","I",
        " ","c","a","n","'","t"," ","t","a","k","e"," ","y","o","u","r"," ",
        "c","a","l","l"," ","r","i","g","h","t"," ","n","o","w"," ","p","l",
        "e","a","s","e"," ","l","e","a","v","e"," ","y","o","u","r"," ","n",
        "a","m","e"," ","a","n","d"," ","n","u","m","b","e","r"," ","a","f",
        "t","e","r"," ","t","h","e"," ","b","e","e","p">>,
      <<"H","e","l","l","o"," ","t","h","i","s"," ","i","s"," ","M","i","k",
        "e"," ","I","'","m"," ","n","o","t"," ","a","v","a","i","l","a","b",
        "l","e"," ","r","i","g","h","t"," ","n","o","w"," ","p","l","e","a",
        "s","e"," ","l","e","a","v","e"," ","a"," ","m","e","s","s","a","g",
        "e"," ","a","f","t","e","r"," ","t","h","e"," ","t","o","n","e"," ",
        "a","n","d"," ","I","'","l","l"," ","g","e","t"," ","b","a","c","k",
        " ","t","o"," ","y","o","u">>,
      <<"Y","o","u","'","v","e"," ","r","e","a","c","h","e","d"," ","M","i",
        "k","e"," ","R","o","d","r","i","g","u","e","z"," ","I"," ","c","a",
        "n","'","t"," ","c","o","m","e"," ","t","o"," ","t","h","e"," ","p",
        "h","o","n","e"," ","r","i","g","h","t"," ","n","o","w"," ","p","l",
        "e","a","s","e"," ","l","e","a","v","e"," ","y","o","u","r"," ","n",
        "a","m","e"," ","n","u","m","b","e","r"," ","a","n","d"," ","a"," ",
        "b","r","i","e","f"," ","m","e","s","s","a","g","e"," ","a","f","t",
        "e","r"," ","t","h","e"," ","b","e","e","p">>
    >>

BeepSuffix ==
    <<" ","p","l","e","a","s","e"," ","l","e","a","v","e"," ","a"," ","m",
      "e","s","s","a","g","e"," ","a","f","t","e","r"," ","t","h","e"," ",
      "b","e","e","p">>

CompleteIndicators ==
    {
      <<"l","e","a","v","e"," ","a"," ","m","e","s","s","a","g","e">>,
      <<"a","f","t","e","r"," ","t","h","e"," ","b","e","e","p">>,
      <<"a","f","t","e","r"," ","t","h","e"," ","t","o","n","e">>,
      <<"c","a","l","l"," ","m","e"," ","b","a","c","k">>,
      <<"t","h","a","n","k"," ","y","o","u">>,
      <<"g","o","o","d","b","y","e">>,
      <<"l","e","a","v","e"," ","y","o","u","r"," ","n","a","m","e">>,
      <<"i","'","l","l"," ","c","a","l","l"," ","y","o","u">>,
      <<"m","e","s","s","a","g","e"," ","a","f","t","e","r">>,
      <<"b","e","e","p"," ","a","n","d"," ","t","h","e","n">>
    }

IncompleteIndicators ==
    {
      <<"h","i"," ","t","h","i","s"," ","i","s">>,
      <<"h","e","l","l","o"," ","t","h","i","s"," ","i","s">>,
      <<"y","o","u","'","v","e"," ","r","e","a","c","h","e","d">>,
      <<"i"," ","a","m">>,
      <<"m","y"," ","n","a","m","e"," ","i","s">>,
      <<"i","'","m"," ","n","o","t"," ","a","v","a","i","l","a","b","l",
        "e">>,
      <<"s","o","r","r","y"," ","i"," ","m","i","s","s","e","d">>
    }

-----------------------------------------------------------------------------
(* The arithmetic of Python floats (IEEE 754 doubles) on non-negative      *)
(* values of the normal range.  A natural number of any size is a sequence *)
(* of limbs, least significant first, without leading zero limbs; a double *)
(* is the record [m, e] standing for m * 2^e, with m a natural number of   *)
(* at most 53 bits (or 2^53 itself) and e an integer.  Two records may     *)
(* stand for the same double; FCmp compares the values.                    *)

LimbBits == 14
Base == 2 ^ LimbBits

\* the limb p of a, 0 outside a
Limb(a, p) == IF p >= 1 /\ p <= Len(a) THEN a[p] ELSE 0

\* a without its leading zero limbs
BTrim(a) ==
    IF \A k \in 1..Len(a) : a[k] = 0 THEN <<>>
    ELSE SubSeq(a, 1, CHOOSE k \in 1..Len(a) :
                          a[k] # 0 /\ \A j \in (k + 1)..Len(a) : a[j] = 0)

\* the integer of a, below 2^31
BToInt(a) ==
    Limb(a, 1) + Base * (Limb(a, 2) + Base * (Limb(a, 3) + Base * Limb(a, 4)))

\* a + b: the limb j takes a carry when a limb below it overflows and the
\* limbs between pass the carry on
BAdd(a, b) ==
    IF a = <<>> THEN b
    ELSE IF b = <<>> THEN a
    ELSE BTrim([j \in 1..(Max2(Len(a), Len(b)) + 1) |->
                  (Limb(a, j) + Limb(b, j)
                   + IF \E k \in 1..(j - 1) :
                          /\ Limb(a, k) + Limb(b, k) >= Base
                          /\ \A t \in (k + 1)..(j - 1) :
                                 Limb(a, t) + Limb(b, t) >= Base - 1
                     THEN 1 ELSE 0) % Base])

\* a - b for a >= b, with the borrows found as the carries of BAdd are
BSub(a, b) ==
    IF b = <<>> THEN a
    ELSE BTrim([j \in 1..Len(a) |->
                  (a[j] - Limb(b, j)
                   - IF \E k \in 1..(j - 1) :
                          /\ a[k] < Limb(b, k)
                          /\ \A t \in (k + 1)..(j - 1) : a[t] <= Limb(b, t)
                     THEN 1 ELSE 0) % Base])

\* -1, 0, 1 as a < b, a = b, a > b
BCmp(a, b) ==
    IF Len(a) # Len(b) THEN (IF Len(a) > Len(b) THEN 1 ELSE -1)
    ELSE IF a = b THEN 0
    ELSE IF \E k \in 1..Len(a) :
                a[k] > b[k] /\ \A j \in (k + 1)..Len(a) : a[j] = b[j]
    THEN 1 ELSE -1

\* a * c for an integer c of 0..2^17
BMulSmall(a, c) ==
    IF a = <<>> \/ c = 0 THEN <<>>
    ELSE BAdd([j \in 1..Len(a) |-> (a[j] * c) % Base],
              <<0>> \o [j \in 1..Len(a) |-> (a[j] * c) \div Base])

\* a * b for b of four limbs or fewer: the columns of the long
\* multiplication, each below 2^30, are split into three limbs
BMul(a, b) ==
    IF a = <<>> \/ b = <<>> THEN <<>>
    ELSE LET col(j) == Limb(b, 1) * Limb(a, j) + Limb(b, 2) * Limb(a, j - 1)
                       + Limb(b, 3) * Limb(a, j - 2)
                       + Limb(b, 4) * Limb(a, j - 3)
         IN  BAdd(BAdd([j \in 1..(Len(a) + Len(b)) |-> col(j) % Base],
                       <<0>> \o [j \in 1..(Len(a) + Len(b)) |->
                                   (col(j) \div Base) % Base]),
                  <<0, 0>> \o [j \in 1..(Len(a) + Len(b)) |->
                                 col(j) \div (Base * Base)])

\* the number of bits of a
BBitLen(a) ==
    IF a = <<>> THEN 0
    ELSE LimbBits * (Len(a) - 1)
         + Cardinality({k \in 0..(LimbBits - 1) : 2 ^ k <= a[Len(a)]})

\* a * 2^s
BShl(a, s) ==
    IF a = <<>> THEN <<>>
    ELSE BTrim([j \in 1..(Len(a) + (s \div LimbBits) + 1) |->
                  ((Limb(a, j - (s \div LimbBits)) * (2 ^ (s % LimbBits)))
                       % Base)
                  + (Limb(a, j - (s \div LimbBits) - 1)
                       \div (2 ^ (LimbBits - (s % LimbBits))))])

\* a \div 2^s
BShr(a, s) ==
    IF a = <<>> THEN <<>>
    ELSE BTrim([j \in 1..(Len(a) - (s \div LimbBits)) |->
                  (Limb(a, j + (s \div LimbBits)) \div (2 ^ (s % LimbBits)))
                  + ((Limb(a, j + (s \div LimbBits) + 1)
                        % (2 ^ (s % LimbBits)))
                       * (2 ^ (LimbBits - (s % LimbBits))))])

\* n / 2^s for s > 0, rounded to the nearest integer and a half to the
\* even one: the floor of (n + 2^(s-1) - 1 + the bit s of n) / 2^s
BRoundShr(n, s) ==
    BShr(BAdd(n, BTrim([j \in 1..(((s - 1) \div LimbBits) + 1) |->
                          IF (Limb(n, (s \div LimbBits) + 1)
                                \div (2 ^ (s % LimbBits))) % 2 = 1
                          THEN (IF j <= (s - 1) \div LimbBits THEN 0
                                ELSE 2 ^ ((s - 1) % LimbBits))
                          ELSE (IF j <= (s - 1) \div LimbBits THEN Base - 1
                                ELSE 2 ^ ((s - 1) % LimbBits) - 1)])),
         s)

\* the next digit of the long division by d, whose top limb is Base \div 2
\* or more: the digit g, estimated from the top limbs of the remainder
\* r < d * Base, is lowered (at most twice) until d * g <= r
RECURSIVE BDivDigit(_, _, _, _)
BDivDigit(q, r, d, g) ==
    IF BCmp(BMulSmall(d, g), r) <= 0
    THEN [q |-> <<g>> \o q, r |-> BSub(r, BMulSmall(d, g))]
    ELSE BDivDigit(q, r, d, g - 1)

\* long division of n by d, the limb k the next to bring down to the
\* remainder st.r; at the end the quotient, with one more limb below it
\* that tells whether a remainder is left
RECURSIVE BDivFrom(_, _, _, _)
BDivFrom(n, d, k, st) ==
    IF k = 0 THEN BTrim(<<IF st.r = <<>> THEN 0 ELSE 1>> \o st.q)
    ELSE IF st.r = <<>> /\ n[k] = 0
    THEN BDivFrom(n, d, k - 1, [q |-> <<0>> \o st.q, r |-> <<>>])
    ELSE BDivFrom(n, d, k - 1,
                  BDivDigit(st.q, <<n[k]>> \o st.r, d,
                            Min2(Base - 1,
                                 (Limb(<<n[k]>> \o st.r, Len(d) + 1) * Base
                                  + Limb(<<n[k]>> \o st.r, Len(d)))
                                     \div d[Len(d)])))

\* (n \div d) * Base, and 1 more when a remainder is left, for d > 0: n
\* and d are shifted to bring the top limb of d to Base \div 2 or more
BDivSticky(n, d) ==
    LET s == LimbBits - (BBitLen(d) - LimbBits * (Len(d) - 1))
    IN  BDivFrom(BShl(n, s), BShl(d, s), Len(BShl(n, s)),
                 [q |-> <<>>, r |-> <<>>])

\* n * 2^e rounded to the nearest double, of 53 bits, a half to the even
\* mantissa
FRound(n, e) ==
    IF BBitLen(n) <= 53 THEN [m |-> n, e |-> e]
    ELSE [m |-> BRoundShr(n, BBitLen(n) - 53), e |-> e + BBitLen(n) - 53]

FFromInt(n) ==
    [m |-> BTrim(<<n % Base, (n \div Base) % Base, n \div (Base * Base)>>),
     e |-> 0]

\* x * y
FMul(x, y) == FRound(BMul(x.m, y.m), x.e + y.e)

\* x / y: the quotient of the mantissas is taken to 55 bits or more
FDiv(x, y) ==
    IF x.m = <<>> THEN x
    ELSE LET s == Max2(0, BBitLen(y.m) + 55 - BBitLen(x.m))
         IN  FRound(BDivSticky(BShl(x.m, s), y.m), x.e - y.e - s - LimbBits)

\* -1, 0, 1 as x < y, x = y, x > y
FCmp(x, y) ==
    BCmp(BShl(x.m, x.e - Min2(x.e, y.e)), BShl(y.m, y.e - Min2(x.e, y.e)))

\* max(x, y) and min(x, y) of Python: y when it is the greater (the
\* smaller), x otherwise
FMax(x, y) == IF FCmp(y, x) > 0 THEN y ELSE x
FMin(x, y) == IF FCmp(y, x) < 0 THEN y ELSE x

\* int(x) and math.ceil(x)
FFloor(x) ==
    BToInt(IF x.e >= 0 THEN BShl(x.m, x.e) ELSE BShr(x.m, -x.e))

FCeil(x) ==
    IF x.e >= 0 \/ BShl(BShr(x.m, -x.e), -x.e) = x.m THEN FFloor(x)
    ELSE FFloor(x) + 1

\* (i + 1) * 0.1, the elapsed time of voicemail_dropper.py line 60
Elapsed(k) == FMul(FFromInt(k), FDiv(FFromInt(1), FFromInt(10)))

\* the double nearest to dur[1] / dur[2]: total_duration = len(audio)
\* / sample_rate (voicemail_dropper.py line 46)
Duration(dur) == FDiv(FFromInt(dur[1]), FFromInt(dur[2]))

-----------------------------------------------------------------------------
(* SimulatedDeepgramTranscriber and SpeechToTextProcessor (src/stt.py)     *)

ChunkInterval == 8
BufferCap == 200
MinContext == 10
NoPhrase == 0

TranscriberNew ==
    [current_phrase |-> NoPhrase, phrase_position |-> 0, last_chunk_time |-> 0]

\* line 51: min(len(phrases) - 1, int(audio_duration / 5)), as a 1-based
\* index; audio_duration is a double.
PhraseIndex(audio_duration) ==
    1 + Min2(Len(VoicemailPhrases) - 1,
             FFloor(FDiv(audio_duration, FFromInt(5))))

\* lines 55-56: int(phrase_length * min(1.0, elapsed_time
\* / max(3.0, audio_duration * 0.7))), every operation in doubles
NewPosition(plen, elapsed_time, audio_duration) ==
    FFloor(FMul(FFromInt(plen),
                FMin(FFromInt(1),
                     FDiv(elapsed_time,
                          FMax(FFromInt(3),
                               FMul(audio_duration,
                                    FDiv(FFromInt(7), FFromInt(10))))))))

\* line 61: elapsed_time > audio_duration * 0.8
PastFourFifths(elapsed_time, audio_duration) ==
    FCmp(elapsed_time,
         FMul(audio_duration, FDiv(FFromInt(8), FFromInt(10)))) > 0

\* simulate_transcription(audio_duration, elapsed_time), both doubles, read
\* at wall time t: the new transcriber and the fragment returned (<<>> for
\* None).
\* lines 57-64: the phrase of t1 has come to position pos
Transcribed(t1, pos, past) ==
    IF pos > t1.phrase_position
    THEN [obj |-> [t1 EXCEPT !.phrase_position = pos],
          text |-> SubSeq(VoicemailPhrases[t1.current_phrase],
                          t1.phrase_position + 1, pos)]
    ELSE IF /\ past
            /\ ~Contains(LowerText(VoicemailPhrases[t1.current_phrase]),
                         <<"a","f","t","e","r"," ","t","h","e"," ","b","e",
                           "e","p">>)
            /\ ~Contains(LowerText(VoicemailPhrases[t1.current_phrase]),
                         <<"m","e","s","s","a","g","e">>)
         THEN [obj |-> t1, text |-> BeepSuffix]
         ELSE [obj |-> t1, text |-> <<>>]

SimulateTranscription(tr, dur, k, t) ==
    IF t - tr.last_chunk_time < ChunkInterval
    THEN [obj |-> tr, text |-> <<>>]
    ELSE LET idx == IF tr.current_phrase = NoPhrase THEN PhraseIndex(dur)
                    ELSE tr.current_phrase
         IN  Transcribed([tr EXCEPT !.last_chunk_time = t,
                                    !.current_phrase = idx],
                         NewPosition(Len(VoicemailPhrases[idx]), k, dur),
                         PastFourFifths(k, dur))

SttNew(t) ==
    [transcript |-> <<>>, sentence_buffer |-> <<>>,
     last_transcription_time |-> t, audio_duration |-> FFromInt(0),
     transcriber |-> TranscriberNew]

\* SpeechToTextProcessor.reset (the analyzer it replaces is the variable llm)
SttReset(st, t) == [SttNew(t) EXCEPT !.audio_duration = st.audio_duration]

\* lines 103-104: the trailing buffer keeps its last 200 characters
CapBufferNone(buf) == buf

CapBuffer(buf) == IF Len(buf) > BufferCap THEN LastChars(buf, BufferCap) ELSE buf

\* SpeechToTextProcessor.process_chunk
\* lines 99-108: the fragment r of simulate_transcription is appended
Transcript(s1, r) ==
    IF r.text # <<>>
    THEN [obj |-> [s1 EXCEPT !.transcriber = r.obj,
                             !.transcript = @ \o r.text,
                             !.sentence_buffer = CapBuffer(@ \o r.text)],
          ret |-> TRUE]
    ELSE [obj |-> [s1 EXCEPT !.transcriber = r.obj], ret |-> FALSE]

SttProcessChunk(st, dur, k, t) ==
    Transcript([st EXCEPT !.audio_duration = dur],
               SimulateTranscription(st.transcriber, dur, k, t))

\* SpeechToTextProcessor.get_current_context
GetCurrentContext(st) ==
    IF Len(st.sentence_buffer) > MinContext THEN st.sentence_buffer
    ELSE LastChars(st.transcript, BufferCap)

-----------------------------------------------------------------------------
(* LLMGreetingAnalyzer (src/llm.py)                                        *)

RateLimit == 40
CacheTtl == 1200
CacheKeyLen == 100
MinGreeting == 5

LlmNew(client) == [client |-> client, last_call_time |-> 0, cache |-> <<>>]

\* _heuristic_analysis
Score(text, indicators) ==
    Cardinality({p \in indicators : Contains(LowerText(text), p)})
HeuristicAnalysis(text) ==
    LET c == Score(text, CompleteIndicators)
        n == Score(text, IncompleteIndicators)
    IN c > n \/ (c > 0 /\ Len(text) > 10)

\* The answers of the remote model: the literal COMPLETE, the literal
\* INCOMPLETE, another text (GARBLED), or a request that raises (ERROR: a
\* timeout, a transport failure, a response without choices or content).
RemoteOutcomes == {"COMPLETE", "INCOMPLETE", "GARBLED", "ERROR"}

\* lines 74-76: the judgment when the request raised
FallbackIncomplete(text) == FALSE

Fallback(text) == HeuristicAnalysis(text)

\* analyze_last_sentence(text) entered at wall time t, the remote request
\* (if made) answering `outcome` after `latency` ticks.  The result is the
\* new analyzer, the judgment, the raw result, the time at return, whether
\* a remote request was made, and `at`, the time at which the judgment is
\* made once the rate-limit wait is over.
AnalyzeLastSentence(an, text, t, outcome, latency) ==
    LET key == FirstChars(LowerText(Strip(text)), CacheKeyLen)
        hit == /\ key \in DOMAIN an.cache
               /\ t - an.cache[key].timestamp < CacheTtl
        t1 == IF t - an.last_call_time < RateLimit
              THEN an.last_call_time + RateLimit ELSE t
    IN IF hit
       THEN [obj |-> an, ret |-> an.cache[key].is_complete,
             raw |-> an.cache[key].raw_result, t |-> t, remote |-> FALSE,
             at |-> t]
       ELSE IF ~an.client
       THEN [obj |-> an, ret |-> HeuristicAnalysis(text), raw |-> "HEURISTIC",
             t |-> t1, remote |-> FALSE, at |-> t1]
       ELSE LET called == [an EXCEPT !.last_call_time = t1]
            IN IF outcome = "ERROR"
               THEN [obj |-> called, ret |-> Fallback(text),
                     raw |-> "HEURISTIC_FALLBACK", t |-> t1 + latency,
                     remote |-> TRUE, at |-> t1]
               ELSE [obj |-> [called EXCEPT !.cache =
                                (key :> [is_complete |-> outcome = "COMPLETE",
                                         raw_result |-> outcome,
                                         timestamp |-> t1 + latency]) @@ @],
                     ret |-> outcome = "COMPLETE", raw |-> outcome,
                     t |-> t1 + latency, remote |-> TRUE, at |-> t1]

\* is_greeting_complete(text)
IsGreetingComplete(an, text, t, outcome, latency) ==
    IF text = <<>> \/ Len(Strip(text)) < MinGreeting
    THEN [obj |-> an, ret |-> FALSE, raw |-> "None", t |-> t, remote |-> FALSE,
          at |-> t]
    ELSE AnalyzeLastSentence(an, Strip(text), t, outcome, latency)

-----------------------------------------------------------------------------
(* The detectors driven alone: any sequence of calls, the clock advancing  *)
(* between and inside the calls.                                           *)

beepVars == <<beep, beep_ret, beep_obs>>
silVars == <<sil, sil_ret, sil_hist>>

\* Nothing observed yet of a SilenceDetector.
NoHist ==
    [ever_active |-> FALSE, nonspeech_run |-> 0, speech_run |-> 0,
     spoke |-> FALSE, after |-> 0, gap |-> FALSE]
batchVars == <<splice, queue, results, call>>
engVars ==
    <<pc, audio, start_time, triggered, trigger_time, trigger_reason,
      processed_duration, total_duration, i, current_context, stt, llm,
      pace, obs, batchVars>>
vars == <<now, beepVars, silVars, engVars>>

\* What a caller observes of the BeepDetector: the length of the last
\* chunk and whether its spectrum and amplitude qualify; hist, the times of
\* the qualifying chunks of at least MinSamples samples since the last
\* confirmation or reset; seen, that list when the last call confirmed;
\* flip, which changes at every call of process_chunk.
NoBeepObs ==
    [n |-> 0, qual |-> FALSE, hist |-> <<>>, seen |-> <<>>, flip |-> FALSE]
ObserveBeep(h, chunk, t, ret) ==
    LET cand == chunk.n >= MinSamples /\ Qualifies(chunk)
        hist == IF cand THEN Append(h.hist, t) ELSE h.hist
    IN [n |-> chunk.n, qual |-> Qualifies(chunk),
        hist |-> IF ret THEN <<>> ELSE hist,
        seen |-> IF ret THEN hist ELSE <<>>,
        flip |-> ~h.flip]

\* The times of the latest unbroken run of chunks whose spectrum and
\* amplitude qualify, whatever their length (the first three of the run).
ToneRun(run, chunk, t) ==
    IF ~Qualifies(chunk) THEN <<>>
    ELSE IF Len(run) >= 3 THEN run ELSE Append(run, t)

NoAudio == [decodes |-> FALSE, sample_rate |-> 0, num_samples |-> 0]
NoCalls ==
    [beep |-> 0, silence |-> 0, stt |-> 0, oracle |-> 0, fed |-> 0, drops |-> 0,
     tone_run |-> <<>>, verdict |-> "none", chars |-> 0]

\* What the oracle answered at this chunk, "none" if it was not consulted.
Verdict(asked, complete) ==
    IF ~asked THEN "none" ELSE IF complete THEN "complete" ELSE "incomplete"

\* No splice under way, no directory being processed.
NoSplice == [pc |-> "none"]
NoCall == [n |-> 0]
NoBatch ==
    /\ splice = NoSplice
    /\ queue = <<>>
    /\ results = <<>>
    /\ call = NoCall

\* VoicemailDropper.__init__ at wall time t, with or without a remote client
DropperNew(t, client) ==
    /\ pc = "idle"
    /\ audio = NoAudio
    /\ start_time = t
    /\ triggered = FALSE
    /\ trigger_time = <<>>
    /\ trigger_reason = "None"
    /\ processed_duration = <<0, 10>>
    /\ total_duration = <<0, 1>>
    /\ i = 0
    /\ current_context = <<>>
    /\ stt = SttNew(t)
    /\ llm = LlmNew(client)
    /\ pace = 0
    /\ obs = NoCalls

EngineNew(t, client) == NoBatch /\ DropperNew(t, client)

Chunk(n, total, ratio, peak, speech) ==
    [n |-> n, total_energy |-> total, ratio |-> ratio, peak |-> peak,
     speech |-> speech]

\* Chunks offered to the BeepDetector: lengths on both sides of 1024,
\* a silent chunk, a 1 kHz tone of amplitude 0.5 (half of the magnitude of
\* a real tone lies at the negative frequency, outside the band), the tone
\* at the amplitude floor, a chunk at the ratio floor.
BeepLengths == {0, 800, 1023, 1024}
BeepChunks ==
    {Chunk(n, k[1], k[2], k[3], FALSE) :
        n \in BeepLengths,
        k \in {<<0, 0, 0>>, <<1, 50, 50>>, <<1, 50, 10>>, <<1, 8, 50>>}}

\* Chunks offered to the SilenceDetector: empty, shorter than a 30 ms
\* frame, a full 0.1 s chunk; classified speech or not.
SilenceChunks ==
    {Chunk(n, 1, 5, 50, sp) : n \in {0, 100, 800}, sp \in BOOLEAN}
DetRates == {8000, 11025}

InitBeep ==
    /\ now = Epoch
    /\ beep = BeepNew
    /\ beep_ret = FALSE
    /\ beep_obs = NoBeepObs
    /\ sil = SilenceNew(Epoch)
    /\ sil_ret = 0
    /\ sil_hist = NoHist
    /\ EngineNew(Epoch, FALSE)

\* time passes between two calls
DetTick ==
    /\ now < Epoch + DetSpan
    /\ now' = now + 1
    /\ UNCHANGED <<beepVars, silVars, engVars>>

DetBeepProcessChunk ==
    \E chunk \in BeepChunks, d2 \in 0..1, d3 \in 0..1 :
        LET r == BeepProcessChunk(beep, chunk, now, now + d2, now + d2 + d3)
        IN /\ now + d2 + d3 <= Epoch + DetSpan
           /\ Len(beep.recent_beep_detections) < MaxList
           /\ beep' = r.obj
           /\ beep_ret' = r.ret
           /\ beep_obs' = ObserveBeep(beep_obs, chunk, now, r.ret)
           /\ now' = now + d2 + d3
           /\ UNCHANGED <<silVars, engVars>>

DetBeepReset ==
    /\ beep' = BeepReset(beep)
    /\ beep_ret' = FALSE
    /\ beep_obs' = [NoBeepObs EXCEPT !.flip = beep_obs.flip]
    /\ UNCHANGED <<now, silVars, engVars>>

NextBeep == DetTick \/ DetBeepProcessChunk \/ DetBeepReset

SpecBeep == InitBeep /\ [][NextBeep]_vars

\* the detector's sample rate (self.sample_rate) is the field sample_rate
SilenceObj(sr, t) == [sample_rate |-> sr] @@ SilenceNew(t)

InitSilence ==
    /\ now = Epoch
    /\ beep = BeepNew
    /\ beep_ret = FALSE
    /\ beep_obs = NoBeepObs
    /\ \E sr \in DetRates : sil = SilenceObj(sr, Epoch)
    /\ sil_ret = 0
    /\ sil_hist = NoHist
    /\ EngineNew(Epoch, FALSE)

\* what a caller observes of a call: whether speech_active has ever been
\* true, and the current run of non-speech classifications; of the chunks
\* passed, the current run of speech classifications (0, 1, 2 for two or
\* more), whether two in a row have been seen (spoke), the number of
\* non-speech chunks since then (0..4 for four or more), and whether one
\* of them was at least the fourth and ended a run of three or more (gap).
Observe(h, sd, chunk, sr) ==
    IF chunk.n = 0
    THEN [h EXCEPT !.ever_active = @ \/ sd.speech_active]
    ELSE LET speech == IsSpeech(chunk, sr)
             srun == IF speech THEN Min2(h.speech_run + 1, 2) ELSE 0
             nrun == IF speech THEN 0 ELSE h.nonspeech_run + 1
             after == IF ~speech /\ h.spoke
                      THEN Min2(h.after + 1, 4) ELSE h.after
         IN [ever_active |-> h.ever_active \/ sd.speech_active,
             nonspeech_run |-> nrun,
             speech_run |-> srun,
             spoke |-> h.spoke \/ srun >= 2,
             after |-> after,
             gap |-> h.gap \/ (after >= 4 /\ nrun >= 3)]

DetSilenceProcessChunk ==
    \E chunk \in SilenceChunks :
        LET r == SilenceProcessChunk(sil, chunk, sil.sample_rate, now)
        IN /\ sil.consecutive_silence < MaxRun + 2
           /\ sil.consecutive_speech < MaxRun
           /\ sil' = r.obj
           /\ sil_ret' = r.ret
           /\ sil_hist' = Observe(sil_hist, r.obj, chunk, sil.sample_rate)
           /\ UNCHANGED <<now, beepVars, engVars>>

DetSilenceReset ==
    /\ sil' = [sample_rate |-> sil.sample_rate] @@ SilenceReset(sil, now)
    /\ sil_ret' = 0
    /\ sil_hist' = NoHist
    /\ UNCHANGED <<now, beepVars, engVars>>

NextSilence == DetTick \/ DetSilenceProcessChunk \/ DetSilenceReset

SpecSilence == InitSilence /\ [][NextSilence]_vars

-----------------------------------------------------------------------------
(* VoicemailDropper.process_audio_stream (src/voicemail_dropper.py)        *)

\* The files offered: one that does not decode; one at 8 Hz; at 8 kHz an
\* empty stream, one shorter than a chunk, one chunk with trailing samples
\* and one of 1.2 s; at 15 Hz three samples; at 16 kHz MaxChunks chunks
\* with trailing samples.
File(ok, sr, len) == [decodes |-> ok, sample_rate |-> sr, num_samples |-> len]
Files ==
    {File(FALSE, 0, 0), File(TRUE, 8, 5), File(TRUE, 8000, 0),
     File(TRUE, 8000, 7), File(TRUE, 8000, 807), File(TRUE, 15, 3),
     File(TRUE, 8000, 9600), File(TRUE, 11025, 2204),
     File(TRUE, 16000, 1600 * MaxChunks + 7)}
\* Wall-clock time the load takes, and the computing time of one iteration
\* of the loop on top of its sleep (the pace of the machine, per run).
LoadDelays == {0, 21}
Paces == {0, 3}
Latencies == {0, 2}

\* line 52: chunk_size = int(sample_rate * 0.1)
ChunkSize(sr) == sr \div 10

\* line 53: total_chunks = len(audio) // chunk_size
TotalChunksCeil(len, size) == (len + size - 1) \div size

TotalChunks(len, size) == len \div size

\* line 57: len(audio[start_idx:end_idx])
ChunkLen(len, size, k) == Max2(0, Min2(size, len - k * size))

\* The chunks of a stream: silence, a 1 kHz tone of amplitude 0.5, speech.
EngineChunks(n) ==
    {Chunk(n, 0, 0, 0, FALSE), Chunk(n, 1, 50, 50, FALSE),
     Chunk(n, 1, 5, 50, TRUE)}

\* lines 69-82: what the engine does with the chunk's readings: the reason
\* it triggers with ("None" to go on) and whether the oracle is consulted.
\* `complete` is the oracle's answer.
DecisionSilenceFirst(beep_detected, silence_duration, context, complete) ==
    IF /\ silence_duration >= SilenceThreshold
       /\ Len(context) > MinContext
    THEN [reason |-> IF complete THEN "silence_and_complete_greeting"
                     ELSE IF beep_detected THEN "beep_detected" ELSE "None",
          oracle |-> TRUE]
    ELSE [reason |-> IF beep_detected THEN "beep_detected" ELSE "None",
          oracle |-> FALSE]

DecisionNoContext(beep_detected, silence_duration, context, complete) ==
    IF beep_detected
    THEN [reason |-> "beep_detected", oracle |-> FALSE]
    ELSE IF silence_duration >= SilenceThreshold
    THEN [reason |-> IF complete THEN "silence_and_complete_greeting"
                     ELSE "None",
          oracle |-> TRUE]
    ELSE [reason |-> "None", oracle |-> FALSE]

Decision(beep_detected, silence_duration, context, complete) ==
    IF beep_detected
    THEN [reason |-> "beep_detected", oracle |-> FALSE]
    ELSE IF /\ silence_duration >= SilenceThreshold
            /\ context # <<>> /\ Len(context) > MinContext
    THEN [reason |-> IF complete THEN "silence_and_complete_greeting"
                     ELSE "None",
          oracle |-> TRUE]
    ELSE [reason |-> "None", oracle |-> FALSE]

\* lines 72, 78: a trigger breaks out of the loop
NoBreak(reason) == "loop"

PcAfterChunk(reason) == IF reason # "None" THEN "returned" ELSE "loop"

\* lines 84-88: the reason when the loop ends without a trigger
FallbackReason(last_speech_time, start) ==
    IF last_speech_time > start + SpeechMargin
    THEN "end_of_speech" ELSE "end_of_audio"

\* 0.9 * total_duration
FallbackTime(dur) == <<9 * dur[1], 10 * dur[2]>>

Init ==
    /\ now = Epoch
    /\ beep = BeepNew
    /\ beep_ret = FALSE
    /\ beep_obs = NoBeepObs
    /\ sil = [none |-> TRUE]
    /\ sil_ret = 0
    /\ sil_hist = NoHist
    /\ \E client \in BOOLEAN : EngineNew(Epoch, client)

\* lines 43-53: where the run stands after the load of file f
PcAfterLoadRaising(f) ==
    IF ~f.decodes \/ ChunkSize(f.sample_rate) = 0 THEN "raised" ELSE "loop"

PcAfterLoad(f) ==
    IF ~f.decodes THEN "returned"
    ELSE IF ChunkSize(f.sample_rate) = 0 THEN "raised" ELSE "loop"

\* lines 36-53 on file f: the resets, the load taking d ticks, the chunk
\* arithmetic; p is the pace of the run
LoadStream(f, d, p) ==
        /\ pc = "idle"
        /\ pace' = p
        /\ audio' = f
        /\ start_time' = now
        /\ triggered' = FALSE
        /\ trigger_time' = <<>>
        /\ trigger_reason' = "None"
        /\ processed_duration' = <<0, 10>>
        /\ beep' = BeepReset(beep)
        /\ beep_obs' = [NoBeepObs EXCEPT !.flip = beep_obs.flip]
        /\ stt' = SttReset(stt, now)
        /\ llm' = LlmNew(llm.client)
        /\ now' = now + d
        /\ i' = 0
        /\ IF ~f.decodes
           THEN UNCHANGED <<sil, sil_hist, total_duration>>
           ELSE /\ total_duration' = <<f.num_samples, f.sample_rate>>
                /\ sil' = SilenceObj(f.sample_rate, now + d)
                /\ sil_hist' = NoHist
        /\ pc' = PcAfterLoad(f)
        /\ obs' = NoCalls
        /\ UNCHANGED <<beep_ret, sil_ret, current_context>>

StartStream ==
    \E f \in Files, d \in LoadDelays, p \in Paces :
        LoadStream(f, d, p) /\ UNCHANGED batchVars

\* lines 54-83: one iteration of the chunk loop.  b, s, st are the three
\* calls of lines 63-66 in order, ctx is line 67, o the oracle's judgment.
ProcessChunk ==
    /\ pc = "loop"
    /\ i < TotalChunks(audio.num_samples, ChunkSize(audio.sample_rate))
    /\ \E st \in {SttProcessChunk(stt, Duration(total_duration),
                                   Elapsed(i + 1), now)} :
        \E chunk \in EngineChunks(ChunkLen(audio.num_samples,
                                          ChunkSize(audio.sample_rate), i)) :
        \E b \in {BeepProcessChunk(beep, chunk, now, now, now)},
           s \in {SilenceProcessChunk(sil, chunk, audio.sample_rate, now)} :
        \E ctx \in {GetCurrentContext(st.obj)} :
        \E asks \in {~triggered /\ Decision(b.ret, s.ret, ctx, FALSE).oracle} :
        \E outcome \in (IF asks /\ llm.client THEN RemoteOutcomes ELSE {"ERROR"}),
           latency \in (IF asks /\ llm.client THEN Latencies ELSE {0}) :
        \E o \in {IF asks THEN IsGreetingComplete(llm, ctx, now, outcome, latency)
                  ELSE [obj |-> llm, ret |-> FALSE, raw |-> "None", t |-> now,
                        remote |-> FALSE, at |-> now]} :
        \E dec \in {IF triggered THEN [reason |-> "None", oracle |-> FALSE]
                    ELSE Decision(b.ret, s.ret, ctx, o.ret)} :
            /\ chunk.n # 0
            /\ Len(b.obj.recent_beep_detections) <= MaxCandidates
            /\ processed_duration' = <<i + 1, 10>>
            /\ beep' = b.obj
            /\ beep_ret' = b.ret
            /\ beep_obs' = ObserveBeep(beep_obs, chunk, now, b.ret)
            /\ sil' = s.obj
            /\ sil_ret' = s.ret
            /\ sil_hist' = Observe(sil_hist, s.obj, chunk, audio.sample_rate)
            /\ stt' = st.obj
            /\ current_context' = ctx
            /\ llm' = o.obj
            /\ obs' = [obs EXCEPT !.beep = @ + 1, !.silence = @ + 1,
                                  !.stt = @ + 1, !.fed = @ + chunk.n,
                                  !.tone_run = ToneRun(@, chunk, now),
                                  !.oracle = IF dec.oracle THEN @ + 1 ELSE @,
                                  !.verdict = Verdict(dec.oracle, o.ret),
                                  !.drops = IF dec.reason # "None"
                                            THEN @ + 1 ELSE @]
            /\ IF dec.reason # "None"
               THEN /\ triggered' = TRUE
                    /\ trigger_time' = <<i + 1, 10>>
                    /\ trigger_reason' = dec.reason
               ELSE UNCHANGED <<triggered, trigger_time, trigger_reason>>
            /\ pc' = PcAfterChunk(dec.reason)
            /\ IF PcAfterChunk(dec.reason) = "returned"
               THEN now' = o.t /\ i' = i
               ELSE now' = o.t + SleepTicks + pace /\ i' = i + 1
            /\ UNCHANGED <<audio, start_time, total_duration, pace, batchVars>>

\* lines 84-89: the loop is exhausted
EndOfStream ==
    /\ pc = "loop"
    /\ i >= TotalChunks(audio.num_samples, ChunkSize(audio.sample_rate))
    /\ IF ~triggered
       THEN /\ triggered' = TRUE
            /\ trigger_time' = FallbackTime(total_duration)
            /\ trigger_reason' = FallbackReason(sil.last_speech_time, start_time)
            /\ obs' = [obs EXCEPT !.drops = @ + 1]
       ELSE UNCHANGED <<triggered, trigger_time, trigger_reason, obs>>
    /\ pc' = "returned"
    /\ UNCHANGED <<now, beepVars, silVars, audio, start_time,
                   processed_duration, total_duration, i, current_context,
                   stt, llm, pace, batchVars>>

Next == StartStream \/ ProcessChunk \/ EndOfStream

Spec == Init /\ [][Next]_vars

-----------------------------------------------------------------------------
(* VoicemailDropper.process_directory (src/voicemail_dropper.py)           *)

\* The directories processed, as the sorted list of their files: a file
\* that does not decode, one of a single chunk, one of three chunks at
\* 16 kHz, one of eleven chunks, one at 8 Hz.
Undecodable == File(FALSE, 0, 0)
OneChunk == File(TRUE, 8000, 807)
ThreeChunks == File(TRUE, 16000, 4800)
Greeting == File(TRUE, 16000, 17600)
Queues ==
    {<<Undecodable, OneChunk>>, <<OneChunk, Undecodable, ThreeChunks>>,
     <<ThreeChunks, OneChunk>>, <<Greeting, OneChunk>>,
     <<ThreeChunks, ThreeChunks>>, <<OneChunk, File(TRUE, 8, 5)>>}

\* lines 117-131: the status recorded for a file; inserted tells whether
\* insert_voice_mail_at_drop returned without raising
DirStatus(timestamp, inserted) ==
    IF timestamp # <<>> /\ inserted THEN "SUCCESS" ELSE "FAILED"

InitDir ==
    /\ now = Epoch
    /\ beep = BeepNew
    /\ beep_ret = FALSE
    /\ beep_obs = NoBeepObs
    /\ sil = [none |-> TRUE]
    /\ sil_ret = 0
    /\ sil_hist = NoHist
    /\ \E client \in BOOLEAN : DropperNew(Epoch, client)
    /\ splice = NoSplice
    /\ queue \in Queues
    /\ results = <<>>
    /\ call = NoCall

\* line 116: process_audio_stream is entered on the next file
DirNextFile ==
    /\ queue # <<>>
    /\ LoadStream(Head(queue), 0, 3)
    /\ UNCHANGED batchVars

\* lines 116-132: process_audio_stream has returned; the clip is inserted
\* if there is a timestamp, and the result is recorded
DirRecord ==
    /\ pc = "returned"
    /\ queue # <<>>
    /\ \E ret \in {IF audio.decodes THEN <<trigger_time, trigger_reason>>
                    ELSE << <<>>, "None" >>} :
       \E inserted \in (IF ret[1] # <<>> THEN BOOLEAN ELSE {FALSE}) :
         results' = Append(results,
                       [file |-> Head(queue), timestamp |-> ret[1],
                        reason |-> ret[2],
                        status |-> DirStatus(ret[1], inserted)])
    /\ queue' = Tail(queue)
    /\ pc' = "idle"
    /\ UNCHANGED <<now, beepVars, silVars, audio, start_time, triggered,
                   trigger_time, trigger_reason, processed_duration,
                   total_duration, i, current_context, stt, llm, pace, obs,
                   splice, call>>

NextDir == DirNextFile \/ ProcessChunk \/ EndOfStream \/ DirRecord

SpecDir == InitDir /\ [][NextDir]_vars

-----------------------------------------------------------------------------
(* The SpeechToTextProcessor driven alone: any sequence of process_chunk   *)
(* calls on streams of 1 s and 45 s, 0.4 s apart or closer.                 *)

SttDurations == {<<1, 1>>, <<45, 1>>}
\* elapsed_time, in tenths of a second
SttElapsed == {5, 9, 30, 200, 450}
SttGaps == {0, 8}

InitStt ==
    /\ now = Epoch
    /\ beep = BeepNew
    /\ beep_ret = FALSE
    /\ beep_obs = NoBeepObs
    /\ sil = [none |-> TRUE]
    /\ sil_ret = 0
    /\ sil_hist = NoHist
    /\ DropperNew(Epoch, FALSE)
    /\ NoBatch

\* process_chunk followed by get_current_context, as at lines 66-67 of
\* process_audio_stream; obs.chars counts the characters of the fragments
\* the transcriber returned
SttFeed ==
    \E dur \in SttDurations, k \in SttElapsed, gap \in SttGaps :
        /\ now + gap <= Epoch + SttSpan
        /\ Len(stt.transcript) < MaxTranscript
        \* the duration of a stream does not change between two resets
        /\ IF stt.transcriber.current_phrase = NoPhrase THEN TRUE
           ELSE stt.transcriber.current_phrase = PhraseIndex(Duration(dur))
        /\ \E fragment \in {SimulateTranscription(stt.transcriber,
                                  Duration(dur), Elapsed(k), now + gap).text},
              st \in {SttProcessChunk(stt, Duration(dur), Elapsed(k),
                                      now + gap)} :
            /\ now' = now + gap
            /\ stt' = st.obj
            /\ current_context' = GetCurrentContext(st.obj)
            /\ obs' = [obs EXCEPT !.chars = @ + Len(fragment)]
        /\ UNCHANGED <<beepVars, silVars, pc, audio, start_time, triggered,
                       trigger_time, trigger_reason, processed_duration,
                       total_duration, i, llm, pace, batchVars>>

\* reset, which also replaces the analyzer (stt.py line 127), followed by
\* get_current_context
SttResetCall ==
    /\ stt' = SttReset(stt, now)
    /\ llm' = LlmNew(llm.client)
    /\ current_context' = GetCurrentContext(SttReset(stt, now))
    /\ obs' = NoCalls
    /\ UNCHANGED <<now, beepVars, silVars, pc, audio, start_time, triggered,
                   trigger_time, trigger_reason, processed_duration,
                   total_duration, i, pace, batchVars>>

NextStt == SttFeed \/ SttResetCall

SpecStt == InitStt /\ [][NextStt]_vars

-----------------------------------------------------------------------------
(* The analyzer driven alone: any sequence of calls of is_greeting_complete *)

\* The texts judged: the first eleven characters of a greeting, the words
\* "after the beep" that end one, a text of fewer than five characters.
OracleTexts ==
    {FirstChars(VoicemailPhrases[1], 11), LastChars(VoicemailPhrases[7], 14),
     <<" ", "h", "i", " ">>}
\* A context of more than 100 characters, and the same context once the
\* rest of the greeting has been appended to it.
LongTexts ==
    {FirstChars(VoicemailPhrases[9], CacheKeyLen + 5), VoicemailPhrases[9]}
\* The time between the return of a call and the next call.
OracleGaps == {0, 40}

\* What a caller observes of a call: n counts the calls (0, 1, 2 for two
\* or more); judged tells that a
\* judgment was made (the text was long enough and not found in the cache),
\* at the time `at`, the previous judgment having been made at `prev`;
\* stored tells that the call changed the cache, hit that the answer was
\* read from the cache, and src gives for each key of the cache the trimmed,
\* lower-cased text whose judgment the entry holds.
ObserveCall(h, an, text, outcome, o) ==
    LET made == o.raw \in {"HEURISTIC", "HEURISTIC_FALLBACK"} \/ o.remote
    IN [n |-> Min2(h.n + 1, 2), text |-> text, ret |-> o.ret, raw |-> o.raw,
        outcome |-> IF o.remote THEN outcome ELSE "none",
        judged |-> made,
        at |-> IF made THEN o.at ELSE IF h.n = 0 THEN None ELSE h.at,
        prev |-> IF ~made THEN (IF h.n = 0 THEN None ELSE h.prev)
                 ELSE IF h.n = 0 THEN None ELSE h.at,
        stored |-> o.obj.cache # an.cache,
        hit |-> ~made /\ o.raw # "None",
        src |-> LET was == IF h.n = 0 THEN <<>> ELSE h.src
                    norm == LowerText(Strip(text))
                IN IF o.obj.cache # an.cache
                   THEN (FirstChars(norm, CacheKeyLen) :> norm) @@ was
                   ELSE was,
        client |-> an.client]

InitOracle ==
    /\ now = Epoch
    /\ beep = BeepNew
    /\ beep_ret = FALSE
    /\ beep_obs = NoBeepObs
    /\ sil = [none |-> TRUE]
    /\ sil_ret = 0
    /\ sil_hist = NoHist
    /\ \E client \in BOOLEAN : DropperNew(Epoch, client)
    /\ NoBatch

OracleCallOn(texts) ==
    \E gap \in OracleGaps, text \in texts :
    \E outcome \in (IF llm.client THEN RemoteOutcomes ELSE {"ERROR"}),
       latency \in (IF llm.client THEN Latencies ELSE {0}) :
    \E o \in {IsGreetingComplete(llm, text, now + gap, outcome, latency)} :
        /\ now + gap <= Epoch + OracleSpan
        /\ llm' = o.obj
        /\ now' = o.t
        /\ call' = ObserveCall(call, llm, text, outcome, o)
        /\ UNCHANGED <<beepVars, silVars, pc, audio, start_time, triggered,
                       trigger_time, trigger_reason, processed_duration,
                       total_duration, i, current_context, stt, pace, obs,
                       splice, queue, results>>

\* SpeechToTextProcessor.reset replaces the analyzer
OracleReset ==
    /\ call.n > 0
    /\ llm' = LlmNew(llm.client)
    /\ stt' = SttReset(stt, now)
    /\ call' = NoCall
    /\ UNCHANGED <<now, beepVars, silVars, pc, audio, start_time, triggered,
                   trigger_time, trigger_reason, processed_duration,
                   total_duration, i, current_context, pace, obs,
                   splice, queue, results>>

OracleCall == OracleCallOn(OracleTexts)

NextOracle == OracleCall \/ OracleReset

SpecOracle == InitOracle /\ [][NextOracle]_vars

\* The oracle with a remote client, asked about contexts longer than the
\* key of its cache.
InitCache ==
    /\ InitOracle
    /\ llm.client

CacheCall == OracleCallOn(LongTexts \cup {LastChars(VoicemailPhrases[7], 14)})

NextCache == CacheCall \/ OracleReset

SpecCache == InitCache /\ [][NextCache]_vars

-----------------------------------------------------------------------------
(* insert_voice_mail_at_drop and write_audio (src/utils.py)                *)
(*                                                                         *)
(* An audio array is a record: sr its sample rate, ch its channel count    *)
(* (1 for a one-dimensional array) and data its frames, each a sequence of *)
(* ch sample values.  A sample value is an integer count of 1/FullScale;   *)
(* a float division is truncated to that unit.                             *)

FullScale == 30000

Audio(sr, ch, data) == [sr |-> sr, ch |-> ch, data |-> data]

AbsV(v) == IF v < 0 THEN -v ELSE v

DivTrunc(a, b) == IF a >= 0 THEN a \div b ELSE -((-a) \div b)

MaxOf(vals) ==
    IF vals = {} THEN 0
    ELSE CHOOSE x \in vals : \A y \in vals : y <= x

\* line 31: np.abs(audio).max() if audio.size else 0.0
PeakOf(a) ==
    MaxOf({AbsV(a.data[k][c]) : k \in 1..Len(a.data), c \in 1..a.ch})

\* write_audio: what is handed to sf.write
WriteAudio(a) ==
    LET max_val == PeakOf(a)
    IN IF max_val > FullScale
       THEN [a EXCEPT !.data =
               [k \in 1..Len(a.data) |->
                   [c \in 1..a.ch |-> DivTrunc(a.data[k][c] * FullScale, max_val)]]]
       ELSE a

\* line 77: int(math.ceil(vm_len * (sr_orig / sr_vm))), in doubles
NewLen(vm_len, sr_orig, sr_vm) ==
    FCeil(FMul(FFromInt(vm_len), FDiv(FFromInt(sr_orig), FFromInt(sr_vm))))

\* lines 79-81: np.interp(x, xp, col)[j] for x = linspace(0, 1, n) and
\* xp = linspace(0, 1, Len(col)), j counted from 0
InterpAt(col, j, n) ==
    IF Len(col) = 1 \/ n = 1 THEN col[1]
    ELSE LET num == j * (Len(col) - 1)
             k == num \div (n - 1)
             r == num % (n - 1)
         IN IF r = 0 THEN col[k + 1]
            ELSE DivTrunc(col[k + 1] * (n - 1 - r) + col[k + 2] * r, n - 1)

\* lines 81, 87: np.interp raises ValueError on an empty clip
Raised == [raised |-> "ValueError"]

\* lines 73-89: the clip at the rate of the original
Resample(vm, sr_orig) ==
    IF vm.sr = sr_orig THEN vm
    ELSE IF Len(vm.data) = 0 THEN Raised
    ELSE LET n == NewLen(Len(vm.data), sr_orig, vm.sr)
         IN [sr |-> sr_orig, ch |-> vm.ch,
             data |-> [j \in 1..n |->
                         [c \in 1..vm.ch |->
                            InterpAt([k \in 1..Len(vm.data) |-> vm.data[k][c]],
                                     j - 1, n)]]]

\* np.mean(audio, axis=1)
MeanFrame(f) == DivTrunc(SumSeq(f), Len(f))

\* ensure_channels(audio, target_channels)
EnsureChannels(a, target) ==
    IF a.ch = target THEN a
    ELSE IF a.ch = 1 /\ target = 2
    THEN [a EXCEPT !.ch = 2,
                   !.data = [k \in 1..Len(a.data) |-> <<a.data[k][1], a.data[k][1]>>]]
    ELSE IF target = 1
    THEN [a EXCEPT !.ch = 1,
                   !.data = [k \in 1..Len(a.data) |-> <<MeanFrame(a.data[k])>>]]
    ELSE [a EXCEPT !.ch = 2,
                   !.data = [k \in 1..Len(a.data) |->
                               <<MeanFrame(a.data[k]), MeanFrame(a.data[k])>>]]

\* Python's round() of the non-negative double x: to the nearest integer,
\* a half to the even neighbour
RoundDown(x) == FFloor(x)

RoundHalfEven(x) ==
    IF x.e >= 0 THEN FFloor(x) ELSE BToInt(BRoundShr(x.m, -x.e))

\* lines 94-95: the insertion index; drop_time is a double given by its
\* sign and its magnitude x, and its product with the rate is a double
DropIndex(drop_time, sr, len) ==
    Max2(0, Min2(IF drop_time.sign >= 0
                 THEN RoundHalfEven(FMul(drop_time.x, FFromInt(sr)))
                 ELSE 0,
                 len))

\* insert_voice_mail_at_drop: the index, the clip as inserted, the array
\* built at line 97 and the array handed to sf.write; or the call raised
\* and nothing was written: in the resampling, or in np.concatenate at
\* line 97 when ensure_channels returned two channels for an original of
\* three or more
Concatenate(orig, voice_mail, drop_time, resampled, idx) ==
    IF resampled = Raised
    THEN [pc |-> "raised", orig |-> orig, voice_mail |-> voice_mail,
          drop_time |-> drop_time]
    ELSE IF EnsureChannels(resampled, orig.ch).ch # orig.ch
    THEN [pc |-> "raised", orig |-> orig, voice_mail |-> voice_mail,
          drop_time |-> drop_time]
    ELSE
    LET vm == EnsureChannels(resampled, orig.ch)
        new_audio == [orig EXCEPT !.data =
                         SubSeq(orig.data, 1, idx) \o vm.data
                            \o SubSeq(orig.data, idx + 1, Len(orig.data))]
    IN [pc |-> "done", orig |-> orig, voice_mail |-> voice_mail,
        drop_time |-> drop_time, idx |-> idx, vm |-> vm,
        new_audio |-> new_audio, written |-> WriteAudio(new_audio)]

InsertVoiceMailAtDrop(orig, voice_mail, drop_time) ==
    Concatenate(orig, voice_mail, drop_time, Resample(voice_mail, orig.sr),
                DropIndex(drop_time, orig.sr, Len(orig.data)))

Mono(sr, samples) == Audio(sr, 1, [k \in 1..Len(samples) |-> <<samples[k]>>])

\* The originals: empty, three mono samples, two stereo frames, four mono
\* samples at 16 kHz, fourteen samples at 48 kHz, one frame of three
\* channels.  The clips: empty, one sample, a clip peaking at 2.0, clips at
\* twice and half the rate of the original, a stereo clip, a clip of three
\* channels, and 147 samples of 0.5 at 11025 Hz (at 48 kHz the product of
\* line 77 is the double next above 640).
Originals ==
    {Mono(8000, <<>>), Mono(8000, <<15000, -30000, 0>>),
     Audio(8000, 2, << <<15000, 0>>, <<-15000, 30000>> >>),
     Mono(16000, <<15000, 30000, -15000, 0>>),
     Mono(48000, [k \in 1..14 |-> 0]),
     Audio(8000, 3, << <<15000, 0, -15000>> >>)}
Clips ==
    {Mono(8000, <<>>), Mono(8000, <<15000>>), Mono(8000, <<60000, -15000>>),
     Mono(16000, <<0, 30000, 60000>>), Mono(4000, <<15000, 30000>>),
     Audio(8000, 2, << <<60000, 0>> >>),
     Audio(8000, 3, << <<30000, 0, 0>> >>),
     Mono(11025, [k \in 1..147 |-> 15000])}
\* Drop times: -0.1; the doubles nearest to 0, to 0.5, 1, 1.5, 2.5 and 3
\* samples at 8 kHz, to 13.5 samples at 48 kHz (below it, as the product
\* of line 94 is) and to one second; and the timestamps 1 * 0.1 and
\* 17 * 0.1 that process_audio_stream returns.
DropTimes ==
    {[sign |-> -1, x |-> Elapsed(1)]}
    \cup {[sign |-> 1, x |-> Duration(f)] :
            f \in {<<0, 1>>, <<1, 16000>>, <<1, 8000>>, <<3, 16000>>,
                   <<5, 16000>>, <<3, 8000>>, <<9, 32000>>, <<1, 1>>}}
    \cup {[sign |-> 1, x |-> Elapsed(k)] : k \in {1, 17}}

InitSplice ==
    /\ now = Epoch
    /\ beep = BeepNew
    /\ beep_ret = FALSE
    /\ beep_obs = NoBeepObs
    /\ sil = [none |-> TRUE]
    /\ sil_ret = 0
    /\ sil_hist = NoHist
    /\ DropperNew(Epoch, FALSE)
    /\ queue = <<>>
    /\ results = <<>>
    /\ call = NoCall
    /\ \E orig \in Originals, vm \in Clips, dt \in DropTimes :
         splice = [pc |-> "ready", orig |-> orig, voice_mail |-> vm,
                   drop_time |-> dt]

SpliceInsert ==
    /\ splice.pc = "ready"
    /\ splice' = InsertVoiceMailAtDrop(splice.orig, splice.voice_mail,
                                       splice.drop_time)
    /\ UNCHANGED <<now, beepVars, silVars, pc, audio, start_time, triggered,
                   trigger_time, trigger_reason, processed_duration,
                   total_duration, i, current_context, stt, llm, pace, obs,
                   queue, results, call>>

NextSplice == SpliceInsert

SpecSplice == InitSplice /\ [][NextSplice]_vars

-----------------------------------------------------------------------------
(* Properties *)

Reasons ==
    {"beep_detected", "silence_and_complete_greeting", "end_of_speech",
     "end_of_audio"}
FallbackReasons == {"end_of_speech", "end_of_audio"}

\* Some answer of the oracle on the context of the last chunk is "complete".
WouldJudgeComplete ==
    \E outcome \in RemoteOutcomes :
        IsGreetingComplete(llm, current_context, now, outcome, 0).ret

\* The silence rule's conditions hold on the readings of the last chunk.
SilenceRuleMet ==
    /\ sil_ret >= SilenceThreshold
    /\ Len(current_context) > MinContext
    /\ WouldJudgeComplete

\* C1: at a chunk where the beep detector returns true while the silence
\* duration is at least 0.6 s, the context is longer than 10 characters and
\* the oracle would judge it complete, the reason emitted is beep_detected.
C1_BeepPriority ==
    (pc = "returned" /\ audio.decodes /\ beep_ret /\ SilenceRuleMet)
        => trigger_reason = "beep_detected"

C1_Witness ==
    /\ pc = "returned"
    /\ beep_ret
    /\ SilenceRuleMet
    /\ triggered

\* C2: within a run the decision is latched: _trigger_drop runs at most
\* once, the reason and timestamp it recorded are never overwritten, and
\* after the trigger no detector or transcription call is made.
C2_Latched ==
    [][/\ obs'.drops <= 1
       /\ (triggered /\ pc # "idle") =>
            /\ triggered'
            /\ trigger_time' = trigger_time
            /\ trigger_reason' = trigger_reason
            /\ obs'.beep = obs.beep
            /\ obs'.silence = obs.silence
            /\ obs'.stt = obs.stt]_vars

\* a trigger fired while chunks of the stream were still to come
C2_Witness ==
    /\ pc = "returned"
    /\ triggered
    /\ obs.drops = 1
    /\ trigger_reason = "beep_detected"
    /\ i + 1 < TotalChunks(audio.num_samples, ChunkSize(audio.sample_rate))

\* C3: every run on a file that decodes ends in the Triggered state with
\* exactly one decision, its reason one of the four and its timestamp set.
C3_EndsTriggered ==
    /\ pc # "raised"
    /\ (pc = "returned" /\ audio.decodes) =>
        /\ triggered
        /\ obs.drops = 1
        /\ trigger_reason \in Reasons
        /\ trigger_time # <<>>

\* C4: when the loop ends without a trigger the timestamp is 0.9 x the total
\* duration, and the reason is end_of_speech exactly when speech was
\* detected and the last of it lies more than 1.0 s after the start of the
\* stream; a stream in which no speech was detected ends with end_of_audio.
C4_Fallback ==
    (pc = "returned" /\ audio.decodes /\ trigger_reason \in FallbackReasons) =>
        /\ trigger_time = <<9 * audio.num_samples, 10 * audio.sample_rate>>
        /\ (trigger_reason = "end_of_speech") <=>
               (sil_hist.ever_active /\ sil.last_speech_time > start_time + SpeechMargin)

\* C5: process_chunk returns true only on at least two candidates recorded
\* since the last confirmation or reset, the newest less than 0.3 s after
\* the oldest; one candidate, or two 0.3 s or more apart, never confirm.
C5_Debounce ==
    /\ beep_ret =>
        /\ Len(beep_obs.seen) >= 2
        /\ beep_obs.seen[Len(beep_obs.seen)] - beep_obs.seen[1] < 6
    /\ (/\ Len(beep_obs.hist) >= 1
        /\ beep_obs.hist[Len(beep_obs.hist)] - beep_obs.hist[1] >= 6) => ~beep_ret

\* two candidates 0.25 s apart confirmed
C5_Witness ==
    /\ beep_ret
    /\ Len(beep_obs.seen) = 2
    /\ beep_obs.seen[2] - beep_obs.seen[1] = 5

\* C6: on a chunk shorter than 1024 samples process_chunk returns false and
\* leaves every field of the detector unchanged.
C6_ShortChunk ==
    [][(beep_obs'.flip # beep_obs.flip /\ beep_obs'.n < 1024) =>
            (~beep_ret' /\ beep' = beep)]_vars

\* a short chunk with the spectrum of a beep met a detector holding a candidate
C6_Witness ==
    /\ beep_obs.n = 1023
    /\ beep_obs.qual
    /\ Len(beep.recent_beep_detections) = 1
    /\ ~beep_ret

\* C7: in the 1.2 s stream at 8000 Hz, the second of two qualifying 0.1 s
\* windows that follow each other is confirmed as a beep.
C7_ToneConfirmed ==
    (/\ audio = File(TRUE, 8000, 9600)
     /\ pc \in {"loop", "returned"}
     /\ Len(obs.tone_run) = 2
     /\ obs.tone_run[2] - obs.tone_run[1] < 6) => beep_ret

\* C8: over process_chunk calls silence_duration never decreases while
\* speech_active stays false, and it leaves zero only on a run of at least
\* three non-speech classifications after speech_active has been true.
C8_SilenceGrows ==
    [][DetSilenceProcessChunk =>
        /\ (~sil.speech_active /\ ~sil'.speech_active)
               => sil'.silence_duration >= sil.silence_duration
        /\ (sil.silence_duration = 0 /\ sil'.silence_duration # 0)
               => (sil_hist'.nonspeech_run >= 3 /\ sil_hist'.ever_active)]_vars

C8_Witness ==
    /\ sil.silence_duration >= 2
    /\ sil_hist.ever_active
    /\ sil_hist.nonspeech_run >= 4

\* C9: in every state of the SilenceDetector a non-zero silence_duration
\* means speech_active is false and silence_start is set.
C9_DurationInvariant ==
    sil.silence_duration # 0 =>
        (~sil.speech_active /\ sil.silence_start # None)

\* a speech frame arrived and the duration measured so far is kept
C9_Witness ==
    /\ sil.silence_duration # 0
    /\ sil.consecutive_speech = 1

\* C10 as stated: unless a trigger fired earlier every sample of the stream,
\* those of a final partial chunk included, is fed to the detectors.
C10_AllSamplesFed ==
    (pc = "returned" /\ audio.decodes /\ trigger_reason \in FallbackReasons)
        => obs.fed = audio.num_samples

\* C10 amended: only whole chunks of int(0.1 x sample_rate) samples are
\* fed; the len(audio) mod chunk_size trailing samples never are.
C10_WholeChunksOnly ==
    (audio.decodes /\ pc \in {"loop", "returned"}) =>
        /\ obs.fed = obs.beep * ChunkSize(audio.sample_rate)
        /\ (pc = "returned" /\ trigger_reason \in FallbackReasons) =>
              obs.fed = audio.num_samples
                          - (audio.num_samples % ChunkSize(audio.sample_rate))

C10_Witness ==
    /\ pc = "returned"
    /\ trigger_reason \in FallbackReasons
    /\ audio.num_samples % ChunkSize(audio.sample_rate) # 0
    /\ obs.fed > 0

\* C11: the output of insert_voice_mail_at_drop, as built and as persisted,
\* is as long as the original plus the clip as inserted, starts with the
\* original up to the index and ends with the original from the index on.
C11_RoundTrip ==
    splice.pc = "done" =>
        \A out \in {splice.new_audio, splice.written} :
            LET n == Len(splice.orig.data)
                m == Len(splice.vm.data)
            IN /\ Len(out.data) = n + m
               /\ SubSeq(out.data, 1, splice.idx)
                    = SubSeq(splice.orig.data, 1, splice.idx)
               /\ SubSeq(out.data, splice.idx + m + 1, n + m)
                    = SubSeq(splice.orig.data, splice.idx + 1, n)

\* C12: the insertion index is round(drop_time x sample rate) clamped into
\* [0, original length]: 0 for a negative drop time, an integer within a
\* half of the product (the even one at a half) when that lies in range,
\* and the original's length when the drop time lies beyond the end, the
\* clip then following the whole original.
C12_IndexClamped ==
    splice.pc = "done" =>
        LET n == Len(splice.orig.data)
            dt == splice.drop_time
            idx == splice.idx
            \* twice the product of line 94, and the exact product
            twice == [FMul(dt.x, FFromInt(splice.orig.sr)) EXCEPT !.e = @ + 1]
            exact == [m |-> BMul(dt.x.m, FFromInt(splice.orig.sr).m),
                      e |-> dt.x.e]
        IN /\ idx \in 0..n
           /\ dt.sign < 0 => idx = 0
           /\ (dt.sign >= 0 /\ idx < n) =>
                /\ FCmp(twice, FFromInt(2 * idx + 1)) <= 0
                /\ idx > 0 => FCmp(FFromInt(2 * idx - 1), twice) <= 0
                /\ (FCmp(twice, FFromInt(2 * idx + 1)) = 0) => idx % 2 = 0
                /\ (idx > 0 /\ FCmp(FFromInt(2 * idx - 1), twice) = 0)
                     => idx % 2 = 0
           /\ (dt.sign >= 0 /\ idx = n /\ n > 0) =>
                FCmp(FFromInt(2 * n - 1), twice) <= 0
           /\ (dt.sign >= 0 /\ FCmp(exact, FFromInt(n)) > 0) =>
                /\ idx = n
                /\ splice.new_audio.data = splice.orig.data \o splice.vm.data

\* a clip appended to a non-empty original for a drop time beyond its end
C12_Witness ==
    /\ splice.pc = "done"
    /\ splice.drop_time.sign >= 0
    /\ FCmp(FMul(splice.drop_time.x, FFromInt(splice.orig.sr)),
            FFromInt(Len(splice.orig.data))) > 0
    /\ splice.idx = 3
    /\ Len(splice.vm.data) > 0
    /\ Len(splice.new_audio.data) = 3 + Len(splice.vm.data)

\* C13: a file that does not decode makes process_audio_stream return the
\* null decision without raising, without triggering and without feeding a
\* chunk; from there the only step is process_directory recording the file
\* as FAILED with no timestamp and no reason and leaving it behind.
C13_NullDecision ==
    [][/\ pc' = "raised" => audio'.decodes
       /\ (pc' = "returned" /\ ~audio'.decodes) =>
            /\ ~triggered'
            /\ trigger_time' = <<>>
            /\ trigger_reason' = "None"
            /\ obs' = NoCalls
       /\ (pc = "returned" /\ ~audio.decodes) =>
            /\ pc' = "idle"
            /\ queue' = Tail(queue)
            /\ results' = Append(results,
                            [file |-> Head(queue), timestamp |-> <<>>,
                             reason |-> "None", status |-> "FAILED"])]_vars

\* the file after one that did not decode was processed and recorded
C13_Witness ==
    /\ Len(results) = 3
    /\ ~results[2].file.decodes
    /\ results[2].status = "FAILED"
    /\ results[2].timestamp = <<>>
    /\ results[3].status = "SUCCESS"
    /\ results[3].reason = "beep_detected"

\* C14: at a chunk on which the beep detector confirms, neither the
\* transcription step nor the oracle runs.
C14_ShortCircuit ==
    [][(obs'.beep = obs.beep + 1 /\ beep_ret') =>
            /\ obs'.stt = obs.stt
            /\ stt' = stt
            /\ obs'.oracle = obs.oracle]_vars

\* C15: at a chunk on which the beep detector did not confirm, the engine
\* triggers exactly when the silence duration is at least 0.6 s, the context
\* is longer than 10 characters and the oracle judged it complete, with the
\* reason silence_and_complete_greeting and the timestamp 0.1 s x the chunks
\* processed; on the verdict incomplete the loop goes on and the silence
\* detector keeps its silence_start and silence_duration.
C15_SilenceRule ==
    [][(obs'.beep = obs.beep + 1 /\ ~beep_ret') =>
        /\ triggered' <=> (/\ sil_ret' >= 12
                           /\ Len(current_context') > 10
                           /\ obs'.verdict = "complete")
        /\ triggered' =>
             /\ trigger_reason' = "silence_and_complete_greeting"
             /\ trigger_time' = <<obs'.beep, 10>>
             /\ pc' = "returned"
        /\ (sil_ret' >= 12 /\ Len(current_context') > 10)
             => obs'.verdict # "none"
        /\ obs'.verdict = "incomplete" =>
             /\ ~triggered'
             /\ pc' = "loop"
             /\ sil'.silence_duration = sil_ret'
             /\ sil'.silence_duration >= 12
             /\ Truthy(sil'.silence_start)]_vars

\* the silence rule fired at the eleventh chunk
C15_Witness ==
    /\ pc = "returned"
    /\ ~beep_ret
    /\ trigger_reason = "silence_and_complete_greeting"
    /\ trigger_time = <<11, 10>>
    /\ obs.verdict = "complete"

\* C16: the oracle is consulted only at a chunk where the engine has not
\* triggered, the beep detector did not confirm, the silence duration is at
\* least 0.6 s and the context is longer than 10 characters, and once there.
C16_OracleGuard ==
    [][obs'.oracle > obs.oracle =>
        /\ obs'.oracle = obs.oracle + 1
        /\ obs'.beep = obs.beep + 1
        /\ ~triggered
        /\ ~beep_ret'
        /\ sil_ret' >= 12
        /\ Len(current_context') > 10]_vars

\* the oracle was consulted and judged the greeting incomplete
C16_Witness ==
    /\ obs.oracle = 1
    /\ obs.verdict = "incomplete"
    /\ ~beep_ret
    /\ sil_ret >= 12
    /\ Len(current_context) = 11

\* C17: whenever the remote request raises (timeout, transport failure,
\* malformed response) is_greeting_complete returns the heuristic's judgment
\* of the text, and the failure leaves nothing in the cache: the caller
\* sees what it would have seen from the heuristic.
C17_FailuresFallBack ==
    (call.n > 0 /\ call.outcome = "ERROR") =>
        /\ call.ret = HeuristicAnalysis(Strip(call.text))
        /\ call.raw = "HEURISTIC_FALLBACK"
        /\ ~call.stored

\* a failed request on a text the heuristic judges complete
C17_Witness ==
    /\ call.n > 0
    /\ call.outcome = "ERROR"
    /\ call.ret
    /\ call.client

\* C18: two consecutive judgments of the oracle are at least rate_limit
\* (2.0 s) apart, with or without a remote client.
C18_MinInterval ==
    (call.n > 0 /\ call.judged /\ call.prev # None) =>
        call.at - call.prev >= 40

\* C19: the trailing buffer never holds more than 200 characters and is the
\* tail of the transcript, which holds every character received; the
\* context is the buffer when that is longer than 10 characters, else the
\* last 200 characters of the transcript (empty when there is none), and
\* never exceeds 200 characters.
C19_ContextBuffer ==
    /\ Len(stt.sentence_buffer) <= 200
    /\ Len(stt.transcript) = obs.chars
    /\ stt.sentence_buffer
         = SubSeq(stt.transcript,
                  Max2(1, Len(stt.transcript) - 199), Len(stt.transcript))
    /\ current_context =
         (IF Len(stt.sentence_buffer) > 10 THEN stt.sentence_buffer
          ELSE IF stt.transcript = <<>> THEN <<>>
          ELSE SubSeq(stt.transcript,
                      Max2(1, Len(stt.transcript) - 199), Len(stt.transcript)))
    /\ Len(current_context) <= 200

\* more than 200 characters were received
C19_Witness ==
    /\ obs.chars > 200
    /\ Len(stt.transcript) = obs.chars
    /\ Len(stt.sentence_buffer) = 200
    /\ Len(current_context) = 200

\* C20: when the chunk loop of a run starts, the beep detector, the silence
\* detector, the transcriber, the transcript and its trailing buffer, the
\* analyzer's cache and last call time and the engine's trigger fields have
\* the values they have when freshly constructed, whatever files the same
\* VoicemailDropper processed before.
C20_FreshAtLoopStart ==
    (pc = "loop" /\ i = 0 /\ obs.beep = 0) =>
        /\ beep = BeepNew
        /\ sil = SilenceObj(audio.sample_rate, now)
        /\ stt.transcriber = TranscriberNew
        /\ stt.transcript = <<>>
        /\ stt.sentence_buffer = <<>>
        /\ stt.last_transcription_time = start_time
        /\ llm = LlmNew(llm.client)
        /\ ~triggered
        /\ trigger_time = <<>>
        /\ trigger_reason = "None"
        /\ processed_duration = <<0, 10>>

\* the loop starts on a file after one that ended by the silence rule on a
\* judgment of the remote oracle
C20_Witness ==
    /\ pc = "loop"
    /\ i = 0
    /\ obs.beep = 0
    /\ Len(results) = 1
    /\ results[1].reason = "silence_and_complete_greeting"
    /\ llm.client

\* C21: process_directory never stops before the end of the directory: the
\* records made so far, in order, followed by the files still to process
\* are the files of the directory, no run of process_audio_stream raises,
\* and a record is FAILED only for a file that did not decode or whose
\* splice raised.
C21_FailuresScoped ==
    /\ pc # "raised"
    /\ [k \in 1..Len(results) |-> results[k].file] \o queue \in Queues
    /\ \A k \in 1..Len(results) :
         results[k].status \in {"SUCCESS", "FAILED"}

\* C22: the candidate list of BeepDetector is emptied only by a call of
\* process_chunk that returns true or by reset(), and a call made when the
\* oldest candidate is 0.3 s old or older returns false and keeps every
\* candidate, whatever the chunk.
C22_NoAgeing ==
    [][/\ (beep.recent_beep_detections # <<>> /\
           beep'.recent_beep_detections = <<>>) =>
              (beep_ret' \/ beep_obs'.flip = beep_obs.flip)
       /\ (/\ beep_obs'.flip # beep_obs.flip
           /\ Len(beep.recent_beep_detections) >= 1
           /\ now - beep.recent_beep_detections[1] >= 6) =>
              /\ ~beep_ret'
              /\ Len(beep'.recent_beep_detections) >=
                     Len(beep.recent_beep_detections)
              /\ SubSeq(beep'.recent_beep_detections, 1,
                        Len(beep.recent_beep_detections)) =
                     beep.recent_beep_detections]_vars

\* a candidate aged 0.3 s, then two qualifying chunks at most 0.05 s apart
\* were recorded and the second of them was not confirmed
C22_Witness ==
    /\ Len(beep.recent_beep_detections) = 3
    /\ beep.recent_beep_detections[2] - beep.recent_beep_detections[1] >= 6
    /\ beep.recent_beep_detections[3] - beep.recent_beep_detections[2] <= 1
    /\ beep_obs.qual
    /\ beep_obs.n >= 1024
    /\ ~beep_ret

\* C23: an answer read from the cache of the oracle was stored for a text
\* whose trimmed, lower-cased form is that of the text asked about.
C23_CacheSameInput ==
    (call.n > 0 /\ call.hit) =>
        LET norm == LowerText(Strip(call.text))
        IN /\ FirstChars(norm, CacheKeyLen) \in DOMAIN call.src
           /\ call.src[FirstChars(norm, CacheKeyLen)] = norm

\* C24: the timestamp of a decision returned by process_audio_stream lies
\* between 0 and the duration of the audio, len(audio) / sample_rate,
\* whatever the sample rate and the length of the stream.
\* (The two fractions are compared by cross-multiplication, after division
\* of both denominators by the sample rate when it divides them both.)
C24_TimestampInRange ==
    (pc = "returned" /\ triggered) =>
        LET k == IF trigger_time[2] % total_duration[2] = 0
                 THEN total_duration[2] ELSE 1
        IN /\ trigger_time[1] >= 0
           /\ trigger_time[1] * (total_duration[2] \div k) <=
                  total_duration[1] * (trigger_time[2] \div k)

\* C25: silence_and_complete_greeting is the reason only in a stream that
\* has held two consecutive speech-classified chunks (speech_active became
\* true) and, after them, at least four non-speech chunks, the fourth or a
\* later one ending a run of three or more; and a run in which
\* speech_active never became true returns beep_detected, end_of_speech or
\* end_of_audio.
C25_SilenceNeedsSpeech ==
    /\ trigger_reason = "silence_and_complete_greeting" =>
           (sil_hist.spoke /\ sil_hist.ever_active /\ sil_hist.gap)
    /\ (pc = "returned" /\ audio.decodes /\ ~sil_hist.ever_active) =>
           trigger_reason \in {"beep_detected", "end_of_speech", "end_of_audio"}

\* the silence rule fired in a stream that had speech and then silence
C25_Witness ==
    /\ pc = "returned"
    /\ trigger_reason = "silence_and_complete_greeting"
    /\ sil_hist.spoke
    /\ sil_hist.gap

====
